---- MODULE Spec2Model ----
(***************************************************************************)
(* Model of dbms/src/DataStreams/FillingBlockInputStream.cpp: the cursor   *)
(* FillingRow with its advance algorithm next(), and the driver            *)
(* FillingBlockInputStream (constructor and readImpl).                     *)
(*                                                                         *)
(* A Field is a record [isNull, v]: the Null field, or a number.  The      *)
(* numbers of the model stay far from the ends of the 64-bit range, so     *)
(* FieldVisitorSum is the mathematical sum and the accurate comparisons    *)
(* are the comparisons of the numbers.  Indices are 1-based here and       *)
(* 0-based in the source.                                                  *)
(*                                                                         *)
(* readImpl is modelled statement by statement around its two `while       *)
(* (filling_row.next(next_row))` loops: pc is the position of the single   *)
(* thread of control, so exactly one step is enabled at a time.            *)
(***************************************************************************)
EXTENDS Integers, Sequences, FiniteSets, TLC

VARIABLES
    header,                 \* column types of the upstream header, by position
    sort_description,       \* the SortDescription handed to the constructor
    upstream,               \* batches the upstream has not delivered yet
    pc,                     \* "new", "error", "idle", "rows", "eos"
    fill_column_positions,
    other_column_positions,
    filling_row,            \* filling_row.row
    next_row,               \* next_row.row
    first,
    block,                  \* the batch pulled by the running readImpl
    row_ind,
    res,                    \* res_fill_columns / res_other_columns, row by row
    generated,
    returned,               \* the block the last readImpl returned
    done,                   \* the last readImpl returned the empty block
    out,                    \* every row returned so far, in order
    input,                  \* every real row delivered so far, in order
    eos_returned            \* the number of rows of each block returned by a
                            \* readImpl that found the upstream exhausted

vars == <<header, sort_description, upstream, pc, fill_column_positions,
          other_column_positions, filling_row, next_row, first, block, row_ind,
          res, generated, returned, done, out, input, eos_returned>>

\* ---------------------------------------------------------------- bounds
MaxRows == 3
MaxRows2 == 2
MaxKey == 5
MaxKey2 == 2
MaxOut == 20
MaxEos == 3
LiveRows == 2
LiveKey == 3
LiveRows2 == 1
LiveKey2 == 2

\* ---------------------------------------------------------------- fields
Null == [isNull |-> TRUE, v |-> 0]
F(n) == [isNull |-> FALSE, v |-> n]
isNull(f) == f.isNull

Min(S) == CHOOSE x \in S : \A y \in S : x <= y
Max(S) == CHOOSE x \in S : \A y \in S : y <= x

\* less with a non-strict comparison.
less_orEquals(lhs, rhs, direction) ==
    IF direction = -1 THEN rhs.v <= lhs.v ELSE lhs.v <= rhs.v

\* less that ignores the direction.
less_ignoresDirection(lhs, rhs, direction) == lhs.v < rhs.v

less(lhs, rhs, direction) ==
    IF direction = -1 THEN rhs.v < lhs.v ELSE lhs.v < rhs.v

equals(lhs, rhs) == lhs.isNull = rhs.isNull /\ lhs.v = rhs.v

\* ------------------------------------------------------------ FillingRow
FillingRow(description) == [i \in 1..Len(description) |-> Null]

getDirection(description, i) == description[i].direction
getFillDescription(description, i) == description[i]

\* initFromDefaults that starts one position late.
initFromDefaults_offByOne(row, description, from_pos) ==
    [i \in 1..Len(row) |->
        IF i > from_pos THEN description[i].fill_from ELSE row[i]]

initFromDefaults(row, description, from_pos) ==
    [i \in 1..Len(row) |->
        IF i >= from_pos THEN getFillDescription(description, i).fill_from ELSE row[i]]

initFromColumns(row, columns, row_num, from_pos) ==
    [i \in 1..Len(row) |->
        IF i >= from_pos /\ i <= Len(columns) THEN columns[i][row_num] ELSE row[i]]

\* The first position where row and to_row are both non-null and differ;
\* Len(row) + 1 when there is none.
findPos(row, to_row) ==
    LET differ == {p \in 1..Len(row) :
                      ~isNull(row[p]) /\ ~isNull(to_row[p]) /\ ~equals(row[p], to_row[p])}
    IN IF differ = {} THEN Len(row) + 1 ELSE Min(differ)

\* trailing whose scan stops one column early.
trailing_stopsEarly(row, description, pos) ==
    {i \in (pos + 2)..Len(row) :
        /\ ~isNull(description[i].fill_to)
        /\ ~isNull(row[i])
        /\ less(F(row[i].v + description[i].fill_step.v), description[i].fill_to,
                description[i].direction)}

\* The trailing columns (after pos) that can still step below their fill_to.
trailing(row, description, pos) ==
    {i \in (pos + 1)..Len(row) :
        /\ ~isNull(getFillDescription(description, i).fill_to)
        /\ ~isNull(row[i])
        /\ less(F(row[i].v + getFillDescription(description, i).fill_step.v),
                getFillDescription(description, i).fill_to,
                getDirection(description, i))}

\* The columns after pos whose fill_from is before to_row there.
catchUp(to_row, description, pos) ==
    {i \in (pos + 1)..Len(to_row) :
        /\ ~isNull(getFillDescription(description, i).fill_from)
        /\ ~isNull(to_row[i])
        /\ less(getFillDescription(description, i).fill_from, to_row[i],
                getDirection(description, i))}

\* nextCatchUp that reports the row equal to the target as generated.
nextCatchUp_returnsTrue(row, to_row, description, pos, next_value) ==
    [row |-> [[i \in 1..Len(row) |-> IF i > pos THEN to_row[i] ELSE row[i]]
                 EXCEPT ![pos] = next_value],
     ret |-> TRUE]

\* nextCatchUp that, when no row is generated, resets the cursor from pos to
\* fill_from instead of moving it onto the target.
nextCatchUp_resetsOnFalse(row, to_row, description, pos, next_value) ==
    LET cu == catchUp(to_row, description, pos)
    IN IF cu # {}
       THEN [row |-> [[i \in 1..Len(row) |->
                         IF i > pos /\ i < Min(cu) THEN to_row[i]
                         ELSE IF i >= Min(cu) THEN description[i].fill_from ELSE row[i]]
                        EXCEPT ![pos] = next_value],
             ret |-> TRUE]
       ELSE [row |-> [i \in 1..Len(row) |->
                        IF i >= pos THEN description[i].fill_from ELSE row[i]],
             ret |-> FALSE]

\* nextCatchUp that reports a generated row without moving the cursor.
nextCatchUp_keepsPos(row, to_row, description, pos, next_value) ==
    [row |-> row, ret |-> TRUE]

\* The catch-up case of next: row[pos] stepped equals to_row[pos].
nextCatchUp(row, to_row, description, pos, next_value) ==
    LET cu == catchUp(to_row, description, pos)
        is_less == cu # {}
        k == IF is_less THEN Min(cu) ELSE Len(row) + 1
        copied == [i \in 1..Len(row) |->
                     IF i > pos /\ i < k THEN to_row[i] ELSE row[i]]
        reset == IF is_less THEN initFromDefaults(copied, description, k) ELSE copied
    IN [row |-> [reset EXCEPT ![pos] = next_value], ret |-> is_less]

\* bool FillingRow::next(const FillingRow & to_row): the row afterwards and
\* the returned value.
next(row, to_row, description) ==
    LET pos == findPos(row, to_row) IN
    IF pos = Len(row) + 1 \/ less(to_row[pos], row[pos], getDirection(description, pos))
    THEN [row |-> row, ret |-> FALSE]
    ELSE
    LET tr == trailing(row, description, pos) IN
    IF tr # {}
    THEN LET i == Max(tr)
             next_value == F(row[i].v + getFillDescription(description, i).fill_step.v)
         IN [row |-> [initFromDefaults(row, description, i + 1) EXCEPT ![i] = next_value],
             ret |-> TRUE]
    ELSE
    LET next_value == F(row[pos].v + getFillDescription(description, pos).fill_step.v) IN
    IF equals(next_value, to_row[pos])
    THEN nextCatchUp(row, to_row, description, pos, next_value)
    ELSE IF less(next_value, to_row[pos], getDirection(description, pos))
    THEN [row |-> [initFromDefaults(row, description, pos + 1) EXCEPT ![pos] = next_value],
          ret |-> TRUE]
    ELSE [row |-> row, ret |-> FALSE]

\* ------------------------------------------------------- block helpers
Default == F(0)

isColumnedAsNumber(type) == type \in {"Int64", "UInt64"}
isValueRepresentedByUnsignedInteger(type) == type = "UInt64"

\* init_columns_by_positions: the columns of a block at the given positions.
init_columns_by_positions(blk, positions) ==
    [k \in 1..Len(positions) |-> [r \in 1..Len(blk) |-> blk[r][positions[k]]]]

\* insertFromFillingRow that inserts a null cursor value as it is.
insertFromFillingRow_keepsNull(row, n_other) ==
    [fill  |-> row,
     other |-> [i \in 1..n_other |-> Default],
     synth |-> TRUE]

insertFromFillingRow(row, n_other) ==
    [fill  |-> [i \in 1..Len(row) |-> IF isNull(row[i]) THEN Default ELSE row[i]],
     other |-> [i \in 1..n_other |-> Default],
     synth |-> TRUE]

\* copyRowFromColumns that always copies the first row.
copyRowFromColumns_firstRow(source, row_num) == [i \in 1..Len(source) |-> source[i][1]]

copyRowFromColumns(source, row_num) == [i \in 1..Len(source) |-> source[i][row_num]]

copyRow(fill_source, other_source, row_num) ==
    [fill  |-> copyRowFromColumns(fill_source, row_num),
     other |-> copyRowFromColumns(other_source, row_num),
     synth |-> FALSE]

indexOf(positions, p) == CHOOSE k \in 1..Len(positions) : positions[k] = p

createResultBlock(rows, hdr, fill_positions, other_positions) ==
    [r \in 1..Len(rows) |->
        [cols  |-> [p \in 1..Len(hdr) |->
                       IF \E k \in 1..Len(fill_positions) : fill_positions[k] = p
                       THEN rows[r].fill[indexOf(fill_positions, p)]
                       ELSE rows[r].other[indexOf(other_positions, p)]],
         synth |-> rows[r].synth]]

\* ----------------------------------------------------------- constructor
is_fill_column(hdr, description, p) ==
    \E k \in 1..Len(description) : description[k].column = p

otherPositions(hdr, description) ==
    SelectSeq([p \in 1..Len(hdr) |-> p], LAMBDA p : ~is_fill_column(hdr, description, p))

negativeBound(elem) ==
    \/ ~isNull(elem.fill_from) /\ less(elem.fill_from, F(0), 1)
    \/ ~isNull(elem.fill_to) /\ less(elem.fill_to, F(0), 1)

\* The bounds the constructor tests for the fill column at header position
\* p are those of sort_description[p], the element at the HEADER index.
\* Past the end of sort_description the read is out of range and `garbage`
\* stands for what it yields.
boundsCheckFails(hdr, description, p, garbage) ==
    /\ isValueRepresentedByUnsignedInteger(hdr[p])
    /\ IF p <= Len(description) THEN negativeBound(description[p]) ELSE garbage

constructorThrows(hdr, description, garbage) ==
    \E p \in 1..Len(hdr) :
        /\ is_fill_column(hdr, description, p)
        /\ \/ ~isColumnedAsNumber(hdr[p])
           \/ boundsCheckFails(hdr, description, p, garbage)

Construct ==
    /\ pc = "new"
    /\ \E garbage \in BOOLEAN :
          IF constructorThrows(header, sort_description, garbage)
          THEN /\ pc' = "error"
               /\ UNCHANGED <<fill_column_positions, other_column_positions,
                              filling_row, next_row>>
          ELSE /\ pc' = "idle"
               /\ fill_column_positions' =
                      [k \in 1..Len(sort_description) |-> sort_description[k].column]
               /\ other_column_positions' = otherPositions(header, sort_description)
               /\ filling_row' = FillingRow(sort_description)
               /\ next_row' = FillingRow(sort_description)
    /\ UNCHANGED <<header, sort_description, upstream, first, block, row_ind, res,
                   generated, returned, done, out, input,
                   eos_returned>>

\* -------------------------------------------------------------- readImpl
old_fill_columns == init_columns_by_positions(block, fill_column_positions)
old_other_columns == init_columns_by_positions(block, other_column_positions)

\* children.back()->read() returned the empty block.
ReadEnd ==
    /\ pc = "idle"
    /\ upstream = <<>>
    /\ Len(eos_returned) < MaxEos
    /\ block' = <<>>
    /\ generated' = FALSE
    /\ next_row' = [i \in 1..Len(filling_row) |->
                       getFillDescription(sort_description, i).fill_to]
    /\ res' = <<>>
    /\ pc' = "eos"
    /\ UNCHANGED <<header, sort_description, upstream, fill_column_positions,
                   other_column_positions, filling_row, first, row_ind, returned,
                   done, out, input,
                   eos_returned>>

\* firstBefore with a non-strict comparison.
firstBefore_nonStrict(columns, description) ==
    {i \in 1..Len(description) :
        /\ ~isNull(description[i].fill_from)
        /\ less_orEquals(description[i].fill_from, columns[i][1], description[i].direction)}

\* The columns of the first batch where fill_from is before row 0.
firstBefore(columns, description) ==
    {i \in 1..Len(description) :
        /\ ~isNull(getFillDescription(description, i).fill_from)
        /\ less(getFillDescription(description, i).fill_from, columns[i][1],
                getDirection(description, i))}

\* children.back()->read() returned a batch of n rows.
ReadBatch ==
    /\ pc = "idle"
    /\ \E n \in 1..Len(upstream) :
          LET blk == SubSeq(upstream, 1, n)
              fill_cols == init_columns_by_positions(blk, fill_column_positions)
              from_cols == initFromColumns(filling_row, fill_cols, 1, 1)
              fb == firstBefore(fill_cols, sort_description)
              lead == initFromDefaults(from_cols, sort_description, Min(fb))
          IN /\ block' = blk
             /\ upstream' = SubSeq(upstream, n + 1, Len(upstream))
             /\ input' = input \o blk
             /\ IF first
                THEN IF fb # {}
                     THEN /\ filling_row' = lead
                          /\ res' = <<insertFromFillingRow(lead, Len(other_column_positions))>>
                     ELSE /\ filling_row' = from_cols
                          /\ res' = <<>>
                ELSE /\ filling_row' = filling_row
                     /\ res' = <<>>
             /\ next_row' = initFromColumns(next_row, fill_cols, 1, 1)
    /\ first' = FALSE
    /\ row_ind' = 1
    /\ pc' = "rows"
    /\ UNCHANGED <<header, sort_description, fill_column_positions,
                   other_column_positions, generated, returned, done, out,
                   eos_returned>>

\* One iteration of `while (filling_row.next(next_row))` for the row row_ind:
\* next returned true and the generated row is inserted.
RowGenerate ==
    /\ pc = "rows"
    /\ Len(res) < MaxOut
    /\ LET r == next(filling_row, next_row, sort_description)
       IN /\ r.ret
          /\ filling_row' = r.row
          /\ res' = Append(res, insertFromFillingRow(r.row, Len(other_column_positions)))
    /\ UNCHANGED <<header, sort_description, upstream, pc, fill_column_positions,
                   other_column_positions, next_row, first, block, row_ind,
                   generated, returned, done, out, input,
                   eos_returned>>

\* next returned false: the real row is copied, and the loop goes on to the
\* next row of the batch or readImpl returns the result block.
RowCopy ==
    /\ pc = "rows"
    /\ LET r == next(filling_row, next_row, sort_description)
           res1 == Append(res, copyRow(old_fill_columns, old_other_columns, row_ind))
           result == createResultBlock(res1, header, fill_column_positions,
                                       other_column_positions)
       IN /\ ~r.ret
          /\ filling_row' = r.row
          /\ IF row_ind < Len(block)
             THEN /\ row_ind' = row_ind + 1
                  /\ next_row' = initFromColumns(next_row, old_fill_columns, row_ind + 1, 1)
                  /\ res' = res1
                  /\ UNCHANGED <<pc, returned, done, out>>
             ELSE /\ pc' = "idle"
                  /\ returned' = result
                  /\ done' = FALSE
                  /\ out' = out \o result
                  /\ res' = <<>>
                  /\ UNCHANGED <<row_ind, next_row>>
    /\ UNCHANGED <<header, sort_description, upstream, fill_column_positions,
                   other_column_positions, first, block, generated, input,
                   eos_returned>>

\* One iteration of the end-of-stream loop toward fill_to.
EosGenerate ==
    /\ pc = "eos"
    /\ Len(res) < MaxOut
    /\ LET r == next(filling_row, next_row, sort_description)
       IN /\ r.ret
          /\ filling_row' = r.row
          /\ res' = Append(res, insertFromFillingRow(r.row, Len(other_column_positions)))
    /\ generated' = TRUE
    /\ UNCHANGED <<header, sort_description, upstream, pc, fill_column_positions,
                   other_column_positions, next_row, first, block, row_ind,
                   returned, done, out, input,
                   eos_returned>>

\* The end-of-stream loop is over: the generated rows are returned, or the
\* empty block when there are none.
EosReturn ==
    /\ pc = "eos"
    /\ LET r == next(filling_row, next_row, sort_description)
           result == createResultBlock(res, header, fill_column_positions,
                                       other_column_positions)
       IN /\ ~r.ret
          /\ filling_row' = r.row
          /\ returned' = IF generated THEN result ELSE <<>>
          /\ eos_returned' = Append(eos_returned, IF generated THEN Len(result) ELSE 0)
          /\ done' = ~generated
          /\ out' = IF generated THEN out \o result ELSE out
    /\ res' = <<>>
    /\ pc' = "idle"
    /\ UNCHANGED <<header, sort_description, upstream, fill_column_positions,
                   other_column_positions, next_row, first, block, row_ind,
                   generated, input>>

Next ==
    \/ Construct
    \/ ReadEnd
    \/ ReadBatch
    \/ RowGenerate
    \/ RowCopy
    \/ EosGenerate
    \/ EosReturn

\* ---------------------------------------------------------- environment
\* A fill element of the sort description.
Elem(c, d, f, t, s) ==
    [column |-> c, direction |-> d, fill_from |-> f, fill_to |-> t, fill_step |-> F(s)]

\* Lexicographic order of two key tuples under the directions of a description.
keysLE(a, b, description) ==
    LET differ == {p \in 1..Len(description) : a[p] # b[p]}
    IN \/ differ = {}
       \/ less(F(a[Min(differ)]), F(b[Min(differ)]), getDirection(description, Min(differ)))

\* The streams an ORDER BY delivers: at most n rows with keys in 0..maxkey,
\* sorted by the description.
SortedKeys(description, n, maxkey) ==
    {s \in UNION {[1..m -> [1..Len(description) -> 0..maxkey]] : m \in 0..n} :
        \A r \in 1..(Len(s) - 1) : keysLE(s[r], s[r + 1], description)}

\* Row r of a stream in header layout: the keys in the fill columns, and in
\* every other column a value that identifies the row.
Stream(hdr, description, keys) ==
    [r \in 1..Len(keys) |->
        [p \in 1..Len(hdr) |->
            IF is_fill_column(hdr, description, p)
            THEN F(keys[r][CHOOSE k \in 1..Len(description) : description[k].column = p])
            ELSE F(r)]]

InitDriver ==
    /\ pc = "new"
    /\ fill_column_positions = <<>>
    /\ other_column_positions = <<>>
    /\ filling_row = <<>>
    /\ next_row = <<>>
    /\ first = TRUE
    /\ block = <<>>
    /\ row_ind = 0
    /\ res = <<>>
    /\ generated = FALSE
    /\ returned = <<>>
    /\ done = FALSE
    /\ out = <<>>
    /\ input = <<>>
    /\ eos_returned = <<>>

Ascending(c) ==
    {Elem(c, 1, f, t, s) : f \in {Null, F(0), F(1)}, t \in {Null, F(3), F(5)}, s \in {1, 2}}

Descending(c) ==
    {Elem(c, -1, f, t, s) : f \in {Null, F(5), F(4)}, t \in {Null, F(2), F(0)}, s \in {-1, -2}}
        \cup {Elem(c, -1, F(10), F(0), -2)}

Outer(c) == {Elem(c, 1, f, t, 1) : f \in {Null, F(0)}, t \in {Null, F(1)}}

Inner(c) ==
    {Elem(c, 1, f, t, 1) : f \in {Null, F(0)}, t \in {Null, F(2)}}
        \cup {Elem(c, -1, f, t, -1) : f \in {Null, F(2)}, t \in {Null, F(0)}}

\* Well-formed queries: signed fill columns, steps in the column's direction.
Init ==
    /\ InitDriver
    /\ \/ /\ header \in {<<"Int64", "String">>}
          /\ sort_description \in {<<e>> : e \in Ascending(1) \cup Descending(1)}
          /\ \E keys \in SortedKeys(sort_description, MaxRows, MaxKey) :
                upstream = Stream(header, sort_description, keys)
       \/ /\ header \in {<<"String", "Int64", "Int64">>}
          /\ sort_description \in {<<a, b>> : a \in Outer(3), b \in Inner(2)}
          /\ \E keys \in SortedKeys(sort_description, MaxRows2, MaxKey2) :
                upstream = Stream(header, sort_description, keys)

Spec == Init /\ [][Next]_vars

\* Any query the constructor can be handed: every layout of up to three
\* columns, fill columns of any type, bounds of either sign, steps of either
\* sign or zero.
Types == {"Int64", "UInt64", "String"}

Headers == UNION {[1..n -> Types] : n \in 1..3}

AnyBounds(c) ==
    {Elem(c, 1, f, t, 1) : f \in {Null, F(-1), F(0)}, t \in {Null, F(-1), F(2)}}

AnyStep(c) ==
    {Elem(c, d, f, F(2), s) : d \in {1, -1}, f \in {Null, F(0)}, s \in {-1, 0, 1}}

AnyKeys(description) ==
    SortedKeys(description, IF Len(description) = 1 THEN 2 ELSE 1, 1)

InitAny ==
    /\ InitDriver
    /\ header \in Headers
    /\ \/ \E c \in 1..Len(header) :
             sort_description \in {<<e>> : e \in AnyBounds(c) \cup AnyStep(c)}
       \/ \E c1, c2 \in 1..Len(header) :
             /\ c1 # c2
             /\ sort_description \in {<<a, b>> : a \in AnyBounds(c1), b \in AnyBounds(c2)}
    /\ \E keys \in AnyKeys(sort_description) :
          upstream = Stream(header, sort_description, keys)

SpecAny == InitAny /\ [][Next]_vars

\* ================================================================ claims
\* The keys of a row of a returned block, and of a delivered row, in the
\* order of the sort description.
keysOf(cols) == [k \in 1..Len(sort_description) |-> cols[sort_description[k].column].v]
OutKeys == [r \in 1..Len(out) |-> keysOf(out[r].cols)]
OutSynth == [r \in 1..Len(out) |-> out[r].synth]
InputKeys == [r \in 1..Len(input) |-> keysOf(input[r])]

\* readImpl was called until it returned the empty block.
Finished == pc = "idle" /\ done /\ upstream = <<>>

\* a, a+s, a+2s, ... up to the largest value <= b (s > 0), as 1-tuples.
UpTo(a, s, b) ==
    IF a <= b THEN [k \in 1..(((b - a) \div s) + 1) |-> <<a + (k - 1) * s>>] ELSE <<>>

\* a, a+s, a+2s, ... strictly below b (s > 0), as 1-tuples.
Below(a, s, b) ==
    IF a < b THEN [k \in 1..(((b - a - 1) \div s) + 1) |-> <<a + (k - 1) * s>>] ELSE <<>>

\* ---- C1
C1_Case ==
    /\ header = <<"Int64", "String">>
    /\ sort_description = <<Elem(1, 1, F(1), F(5), 1)>>
    /\ InputKeys = <<<<2>>, <<4>>>>
    /\ Finished

SingleAscendingBounded ==
    /\ Len(sort_description) = 1
    /\ sort_description[1].direction = 1
    /\ sort_description[1].fill_step.v > 0
    /\ ~isNull(sort_description[1].fill_from)
    /\ ~isNull(sort_description[1].fill_to)

C2_a == sort_description[1].fill_from.v
C2_b == sort_description[1].fill_to.v
C2_s == sort_description[1].fill_step.v

SingleAscending ==
    /\ Len(sort_description) = 1
    /\ sort_description[1].direction = 1
    /\ sort_description[1].fill_step.v > 0

\* Rows i < j of the output are consecutive real rows.
ConsecutiveReal(i, j) ==
    /\ ~out[i].synth
    /\ ~out[j].synth
    /\ \A m \in (i + 1)..(j - 1) : out[m].synth

Between(i, j) == SubSeq(OutKeys, i + 1, j - 1)

\* The greatest value x - k*s (k >= 0) of the cursor's progression g, g+s, ...
\* that is <= x, g being the key of the first row returned.
GridAtOrBefore(x) ==
    x - ((x - OutKeys[1][1]) % sort_description[1].fill_step.v)

\* C3 as stated: between consecutive real rows x < y of a single ascending
\* column with step s the synthesized rows are exactly x+s, x+2s, ... below y.
C3_BetweenFromRow ==
    SingleAscending =>
        \A i, j \in 1..Len(out) :
            (i < j /\ ConsecutiveReal(i, j) /\ OutKeys[i][1] < OutKeys[j][1])
                => Between(i, j) = Below(OutKeys[i][1] + sort_description[1].fill_step.v,
                                         sort_description[1].fill_step.v, OutKeys[j][1])

\* C3 amended: between consecutive real rows x < y the synthesized rows are
\* exactly c+s, c+2s, ... below y, where c is the cursor once x was processed:
\* the greatest value <= x of the progression g, g+s, g+2s, ... that starts at
\* the first row returned (fill_from when it precedes the first real row, else
\* the first real row).  They are x+s, x+2s, ... exactly when x is on that
\* progression.
C3_BetweenOnGrid ==
    SingleAscending =>
        \A i, j \in 1..Len(out) :
            (i < j /\ ConsecutiveReal(i, j) /\ OutKeys[i][1] < OutKeys[j][1])
                => Between(i, j) =
                       Below(GridAtOrBefore(OutKeys[i][1]) + sort_description[1].fill_step.v,
                             sort_description[1].fill_step.v, OutKeys[j][1])

\* A later pair of real rows, the first of them off the progression, with a
\* synthesized row between them.
C3_Witness ==
    /\ SingleAscending
    /\ \E h, i, j \in 1..Len(out) :
          /\ h < i /\ i + 1 < j
          /\ ~out[h].synth
          /\ ConsecutiveReal(i, j)
          /\ GridAtOrBefore(OutKeys[i][1]) # OutKeys[i][1]

\* ---- C4
inRange(f, elem) ==
    /\ ~less(f, elem.fill_from, elem.direction)
    /\ ~less(elem.fill_to, f, elem.direction)

\* C4: every synthesized row has, in every fill column whose fill_from and
\* fill_to are both non-null, a value inside [fill_from, fill_to].
C4_SynthesizedInRange ==
    \A r \in 1..Len(out) : \A k \in 1..Len(sort_description) :
        (/\ out[r].synth
         /\ ~isNull(sort_description[k].fill_from)
         /\ ~isNull(sort_description[k].fill_to))
            => inRange(out[r].cols[sort_description[k].column], sort_description[k])

\* ---- C5
C5_Query ==
    /\ header = <<"String", "Int64", "Int64">>
    /\ sort_description = <<Elem(3, 1, F(0), F(1), 1), Elem(2, 1, F(0), F(2), 1)>>

C6_Query ==
    /\ header = <<"Int64", "String">>
    /\ sort_description = <<Elem(1, -1, F(10), F(0), -2)>>

\* The real rows are distinct values among 10, 8, 6, 4, 2, in descending order.
C6_OnGrid ==
    /\ \A r \in 1..Len(input) : InputKeys[r][1] \in {10, 8, 6, 4, 2}
    /\ \A r \in 1..(Len(input) - 1) : InputKeys[r][1] > InputKeys[r + 1][1]

NegativeUnsignedBound ==
    \E k \in 1..Len(sort_description) :
        /\ header[sort_description[k].column] = "UInt64"
        /\ negativeBound(sort_description[k])

\* C7: whatever the layout of the header and the order of the sort keys, an
\* unsigned fill column with a negative bound makes the constructor fail, so
\* that no row is read or generated.
C7_NegativeUnsignedRejected == (pc # "new" /\ NegativeUnsignedBound) => pc = "error"

\* ---- C8
\* Some fill column has a step that is zero or against its direction.
StepAgainstDirection ==
    \E k \in 1..Len(sort_description) :
        sort_description[k].fill_step.v * sort_description[k].direction <= 0

\* C8: a fill column whose fill_step does not have the sign of its direction
\* makes construction fail, so that generation never starts with it.
C8_StepSignRejected == (pc # "new" /\ StepAgainstDirection) => pc = "error"

\* ---- C9
\* The rows emitted so far: those returned and those of the block under way.
FirstEmittedIsReal ==
    IF out # <<>> THEN ~out[1].synth ELSE (res # <<>> => ~res[1].synth)

C9_Case ==
    /\ Len(sort_description) = 1
    /\ input # <<>>
    /\ ~isNull(sort_description[1].fill_from)
    /\ InputKeys[1][1] = sort_description[1].fill_from.v

\* C9: when row 0 of the first batch has the key fill_from (single fill
\* column), no synthesized row is emitted before it: the first row of the
\* output is that real row.
C9_NoRowBeforeFillFrom ==
    C9_Case => /\ FirstEmittedIsReal
               /\ out # <<>> => out[1].cols = input[1]

C9_Witness == C9_Case /\ Len(out) > 1

\* ---- C10
RealRows(blk) == SelectSeq(blk, LAMBDA r : ~r.synth)

\* readImpl has just returned the block made from a batch.
ReturnedBatch == pc = "idle" /\ block # <<>>

\* C10: the real rows of a returned block are the rows of the batch it was
\* made from, in order and unchanged; so the block has at least as many rows
\* as the batch, and as many exactly when no row was synthesized.
C10_RealRowsKept ==
    ReturnedBatch =>
        /\ [r \in 1..Len(RealRows(returned)) |-> RealRows(returned)[r].cols] = block
        /\ Len(returned) >= Len(block)
        /\ (Len(returned) = Len(block)) <=> (\A r \in 1..Len(returned) : ~returned[r].synth)

C10_Witness ==
    /\ ReturnedBatch
    /\ Len(block) > 1
    /\ Len(returned) > Len(block)
    /\ block[1] # block[2]

\* ---- C11
\* This step inserts a synthesized row: the leading row of the first batch,
\* or a row of one of the two loops.
EmitsSynthesized ==
    /\ pc' \in {"rows", "eos"}
    /\ \/ pc = "idle" /\ res' # <<>>
       \/ pc' = pc /\ Len(res') = Len(res) + 1
    /\ res'[Len(res')].synth

\* This step returns a block with rows.
ReturnsBlock == pc \in {"rows", "eos"} /\ pc' = "idle" /\ returned' # <<>>

\* C11: a synthesized row carries, in every fill column, the cursor's value
\* or the column default where the cursor is null, and the column default in
\* every other column; the returned block has the columns at their header
\* positions.
C11_SynthesizedRowLayout ==
    [][/\ EmitsSynthesized =>
            LET row == res'[Len(res')] IN
            /\ Len(row.fill) = Len(sort_description)
            /\ \A k \in 1..Len(sort_description) :
                  row.fill[k] = (IF filling_row'[k].isNull THEN F(0) ELSE filling_row'[k])
            /\ \A j \in 1..Len(row.other) : row.other[j] = F(0)
       /\ ReturnsBlock =>
            \A r \in 1..Len(res) :
                /\ Len(returned'[r].cols) = Len(header)
                /\ returned'[r].synth = res[r].synth
                /\ \A k \in 1..Len(sort_description) :
                      returned'[r].cols[sort_description[k].column] = res[r].fill[k]
                /\ \A p \in 1..Len(header) :
                      (res[r].synth /\ \A k \in 1..Len(sort_description) :
                                          sort_description[k].column # p)
                          => returned'[r].cols[p] = F(0)]_vars

\* A synthesized row was just inserted while the cursor is null in a column,
\* the fill columns being out of header order.
C11_Witness ==
    /\ pc \in {"rows", "eos"}
    /\ res # <<>>
    /\ res[Len(res)].synth
    /\ \E k \in 1..Len(filling_row) : filling_row[k].isNull
    /\ sort_description[1].column > sort_description[2].column

\* ---- C12
\* C12: once the upstream has reported end-of-stream, at most the first
\* readImpl returns a block with rows (the rows synthesized toward fill_to);
\* every later one returns the empty block, and so does the first one when it
\* synthesized nothing.
C12_AtMostOneBlockAfterEnd ==
    /\ \A i \in 2..Len(eos_returned) : eos_returned[i] = 0
    /\ (pc = "idle" /\ block = <<>> /\ eos_returned # <<>>)
          => /\ done = (eos_returned[Len(eos_returned)] = 0)
             /\ Len(returned) = eos_returned[Len(eos_returned)]
             /\ Len(eos_returned) > 1 => done

\* The first readImpl after the end returned rows and two more have returned.
C12_Witness ==
    /\ pc = "idle"
    /\ Len(eos_returned) = 3
    /\ eos_returned[1] > 1

\* ---- C13
\* The call of next the running loop is about to make, and its outcome.
InLoop == pc \in {"rows", "eos"}
Outcome == next(filling_row, next_row, sort_description)

\* The positions where two rows are both non-null and differ.
Differ(a, b) ==
    {p \in 1..Len(sort_description) : ~a[p].isNull /\ ~b[p].isNull /\ a[p].v # b[p].v}

\* a is strictly before b in the lexicographic order of the key columns, each
\* in its direction, a position where either is null counting as equal.
StrictlyBefore(a, b) ==
    /\ Differ(a, b) # {}
    /\ LET p == Min(Differ(a, b))
       IN IF sort_description[p].direction = -1 THEN a[p].v > b[p].v ELSE a[p].v < b[p].v

\* C13: whenever next(target) returns true, the new cursor is strictly after
\* the previous cursor and strictly before the target.
C13_GeneratedStrictlyBetween ==
    (InLoop /\ Outcome.ret)
        => /\ StrictlyBefore(filling_row, Outcome.row)
           /\ StrictlyBefore(Outcome.row, next_row)

\* next is about to return true with two key columns, the less significant
\* one deciding the order of the new cursor and the target.
C13_Witness ==
    /\ InLoop
    /\ Outcome.ret
    /\ Len(sort_description) = 2
    /\ Differ(Outcome.row, next_row) = {2}

\* ---- C14
\* The first position where cursor and target are both non-null and differ
\* (0 when there is none), and the cursor's value there stepped by fill_step.
Pos == IF Differ(filling_row, next_row) = {} THEN 0 ELSE Min(Differ(filling_row, next_row))
Stepped(p) == filling_row[p].v + sort_description[p].fill_step.v

Before(x, y, p) == IF sort_description[p].direction = -1 THEN x > y ELSE x < y

\* A column after Pos can still be stepped to a value before its fill_to.
TrailingSteps ==
    \E i \in (Pos + 1)..Len(sort_description) :
        /\ ~sort_description[i].fill_to.isNull
        /\ ~filling_row[i].isNull
        /\ Before(Stepped(i), sort_description[i].fill_to.v, i)

\* The columns after Pos whose fill_from is non-null and before the target.
LaterBefore ==
    {i \in (Pos + 1)..Len(sort_description) :
        /\ ~sort_description[i].fill_from.isNull
        /\ ~next_row[i].isNull
        /\ Before(sort_description[i].fill_from.v, next_row[i].v, i)}

\* next is about to be called, no trailing column is stepped, and the value
\* at Pos stepped by fill_step equals the target there.
CatchUpCase ==
    /\ InLoop
    /\ Pos # 0
    /\ ~TrailingSteps
    /\ Stepped(Pos) = next_row[Pos].v

\* Columns before Pos are kept, columns after it up to k are copied from the
\* target, columns from k on are reset to fill_from.
CatchUpRow(k) ==
    /\ Outcome.row[Pos] = F(Stepped(Pos))
    /\ \A i \in 1..(Pos - 1) : Outcome.row[i] = filling_row[i]
    /\ \A i \in (Pos + 1)..Len(sort_description) :
          Outcome.row[i] = (IF i < k THEN next_row[i] ELSE sort_description[i].fill_from)

\* C14 as stated: in the catch-up case next sets column pos to the stepped
\* value and returns true, whether or not a later column has a fill_from
\* before the target.
C14_CatchUpReturnsTrue ==
    CatchUpCase =>
        /\ Outcome.ret
        /\ CatchUpRow(IF LaterBefore # {} THEN Min(LaterBefore) ELSE Len(sort_description) + 1)

\* C14 amended: in the catch-up case (no trailing column being stepped first)
\* next sets column pos to the stepped value; it returns true when some later
\* column has a non-null fill_from strictly before the target there (the
\* columns before that one are copied from the target, the columns from it on
\* are reset to fill_from), and returns false when no later column does (the
\* later columns are copied from the target, the cursor now being the target).
C14_CatchUp ==
    CatchUpCase =>
        /\ Outcome.ret = (LaterBefore # {})
        /\ CatchUpRow(IF LaterBefore # {} THEN Min(LaterBefore) ELSE Len(sort_description) + 1)

\* The catch-up case with a later column to reset.
C14_Witness == CatchUpCase /\ LaterBefore # {}

\* ---- C15
\* C15 as stated: whenever next(target) returns false, the cursor afterwards
\* has reached or passed the target.
C15_FalseMeansReached ==
    (InLoop /\ ~Outcome.ret) => ~StrictlyBefore(Outcome.row, next_row)

\* The cursor is before the target at Pos, one step from there goes strictly
\* past the target, and no trailing column can be stepped.
Overshoots ==
    /\ Pos # 0
    /\ Before(filling_row[Pos].v, next_row[Pos].v, Pos)
    /\ Before(next_row[Pos].v, Stepped(Pos), Pos)
    /\ ~TrailingSteps

\* C15 amended: whenever next(target) returns false, either the cursor
\* afterwards has reached or passed the target, or the cursor is left
\* unchanged strictly before the target because its next step at pos would
\* go strictly past target[pos] (and no trailing column can be stepped): no
\* value of the cursor's progression lies between it and the target.
C15_FalseMeansExhausted ==
    (InLoop /\ ~Outcome.ret)
        => \/ ~StrictlyBefore(Outcome.row, next_row)
           \/ Overshoots /\ Outcome.row = filling_row

\* next is about to return false by overshooting.
C15_Witness == InLoop /\ ~Outcome.ret /\ Overshoots /\ pc = "rows" /\ row_ind > 1

\* ---- C16
\* The trailing columns whose stepped value is still before their fill_to.
TrailingSteppable ==
    {i \in (Pos + 1)..Len(sort_description) :
        /\ ~sort_description[i].fill_to.isNull
        /\ ~filling_row[i].isNull
        /\ Before(Stepped(i), sort_description[i].fill_to.v, i)}

\* next is about to step a single column: a trailing one, or the one at Pos
\* to a value strictly before the target.
SteppingCase ==
    /\ InLoop
    /\ Pos # 0
    /\ Before(filling_row[Pos].v, next_row[Pos].v, Pos)
    /\ TrailingSteppable # {} \/ Before(Stepped(Pos), next_row[Pos].v, Pos)

\* The column that is stepped: the least significant steppable trailing
\* column when there is one, else the one at Pos.
SteppedColumn == IF TrailingSteppable # {} THEN Max(TrailingSteppable) ELSE Pos

C16_WitnessTrailing ==
    /\ SteppingCase
    /\ TrailingSteppable # {}
    /\ Before(Stepped(Pos), next_row[Pos].v, Pos)

\* ---- C17
\* This step pulls a batch.
PullsBatch == pc = "idle" /\ pc' = "rows"

\* The key of row 0 of the batch pulled, in column k.
Row0(k) == block'[1][sort_description[k].column]

\* The key columns whose fill_from is non-null and before row 0.
FromBeforeRow0 ==
    {k \in 1..Len(sort_description) :
        /\ ~sort_description[k].fill_from.isNull
        /\ Before(sort_description[k].fill_from.v, Row0(k).v, k)}

\* C17: the first batch, and only it, initialises the cursor from row 0; for
\* the first key column whose fill_from is non-null and before row 0 the
\* cursor is reset to fill_from from that column on and exactly one
\* synthesized row is emitted ahead of everything else; a later batch emits
\* no leading row and leaves the cursor alone.
C17_FirstBatchOnce ==
    [][PullsBatch =>
          /\ first = (input = <<>>)
          /\ ~first'
          /\ IF first
             THEN IF FromBeforeRow0 # {}
                  THEN /\ \A k \in 1..Len(sort_description) :
                             filling_row'[k] = (IF k < Min(FromBeforeRow0) THEN Row0(k)
                                                ELSE sort_description[k].fill_from)
                       /\ Len(res') = 1
                       /\ res'[1].synth
                       /\ \A k \in 1..Len(sort_description) :
                             res'[1].fill[k] = (IF filling_row'[k].isNull THEN F(0)
                                                ELSE filling_row'[k])
                  ELSE /\ \A k \in 1..Len(sort_description) : filling_row'[k] = Row0(k)
                       /\ res' = <<>>
             ELSE /\ filling_row' = filling_row
                  /\ res' = <<>>]_vars

\* A later batch is under way after a first batch whose leading row was
\* emitted for the second key column, the first one having no fill_from
\* before row 0.
C17_Witness ==
    /\ pc = "rows"
    /\ Len(input) > Len(block)
    /\ Len(sort_description) = 2
    /\ out # <<>>
    /\ out[1].synth
    /\ keysOf(out[1].cols)[1] = InputKeys[1][1]
    /\ ~sort_description[1].fill_from.isNull

\* ---- C18
\* Key tuple a is not after key tuple b in the lexicographic order of the key
\* columns, each in its direction.
NotAfter(a, b) ==
    LET d == {p \in 1..Len(sort_description) : a[p] # b[p]}
    IN d = {} \/ Before(a[Min(d)], b[Min(d)], Min(d))

\* The real rows, pulled and still upstream, are in non-decreasing key order.
RealInOrder ==
    \A i \in 1..(Len(input) + Len(upstream)) : \A j \in (i + 1)..(Len(input) + Len(upstream)) :
        NotAfter(keysOf(IF i <= Len(input) THEN input[i] ELSE upstream[i - Len(input)]),
                 keysOf(IF j <= Len(input) THEN input[j] ELSE upstream[j - Len(input)]))

\* C18: the real rows being in non-decreasing lexicographic key order and
\* every fill_step having the sign of its direction, the keys of all rows
\* emitted, real and synthesized, are in non-decreasing lexicographic order,
\* and no synthesized row comes after a real row it strictly precedes.  The
\* rows emitted change only when readImpl returns, so the states between two
\* calls show every output there is.
C18_OutputSorted ==
    (pc = "idle" /\ RealInOrder)
        => \A i \in 1..Len(out) : \A j \in (i + 1)..Len(out) :
              LET ki == keysOf(out[i].cols)
                  kj == keysOf(out[j].cols)
              IN /\ NotAfter(ki, kj)
                 /\ (~out[i].synth /\ out[j].synth) => ~(NotAfter(kj, ki) /\ kj # ki)

\* A finished two-column stream whose output starts with the leading row,
\* ends with end-of-stream rows and has a synthesized row between real rows.
C18_Witness ==
    /\ Finished
    /\ Len(sort_description) = 2
    /\ Len(out) >= 5
    /\ out[1].synth
    /\ out[Len(out)].synth
    /\ \E i \in 1..Len(out) : \E j \in i..Len(out) : \E k \in j..Len(out) :
          ~out[i].synth /\ out[j].synth /\ ~out[k].synth

\* ---- C19
\* The call of next that immediately follows Outcome, with the same target.
Again == next(Outcome.row, next_row, sort_description)

\* C19: if next(target) returns false, an immediately following next(target)
\* with the same target returns false too and leaves the cursor unchanged.
C19_ExhaustionStable ==
    (InLoop /\ ~Outcome.ret) => (~Again.ret /\ Again.row = Outcome.row)

\* next returns false after moving the cursor onto the target (catch-up).
C19_Witness ==
    /\ InLoop
    /\ ~Outcome.ret
    /\ Outcome.row # filling_row
    /\ Pos # 0
    /\ Outcome.row[Pos] = next_row[Pos]

\* ---- C20
\* readImpl is sequential code: once called, the iterations of its loops and
\* its return are taken one after the other without waiting for anything.
\* The calls themselves (Construct, ReadBatch, ReadEnd) are up to the caller.
Running == RowGenerate \/ RowCopy \/ EosGenerate \/ EosReturn

Fairness == WF_vars(Running)

\* Well-formed queries as in Init, over shorter streams.
InitLive ==
    /\ InitDriver
    /\ \/ /\ header \in {<<"Int64", "String">>}
          /\ sort_description \in {<<e>> : e \in Ascending(1) \cup Descending(1)}
          /\ \E keys \in SortedKeys(sort_description, LiveRows, LiveKey) :
                upstream = Stream(header, sort_description, keys)
       \/ /\ header \in {<<"String", "Int64", "Int64">>}
          /\ sort_description \in {<<a, b>> : a \in Outer(3), b \in Inner(2)}
          /\ \E keys \in SortedKeys(sort_description, LiveRows2, LiveKey2) :
                upstream = Stream(header, sort_description, keys)

SpecLive == InitLive /\ [][Next]_vars /\ Fairness

\* C20: every fill_step being nonzero with the sign of its direction, the
\* loops `while (filling_row.next(target))` of readImpl, per real row and at
\* the end of the stream, stop after finitely many iterations: every call of
\* readImpl that is inside a loop eventually returns.
C20_GenerationTerminates == InLoop ~> (pc = "idle")

\* The stream is finished: the loop per real row went round at least twice
\* after the leading row, and the loop at the end of the stream generated rows
\* toward fill_to and returned.
C20_Witness ==
    /\ Finished
    /\ Len(eos_returned) >= 1
    /\ eos_returned[1] >= 1
    /\ out[1].synth
    /\ Len(out) - eos_returned[1] - Len(input) >= 3

====
